---- MODULE Spec2Model ----
(***************************************************************************)
(* State-machine model of globalcache (src/globalcache/cache.py).          *)
(*                                                                         *)
(* Python objects with identity are kept in heaps:                         *)
(*   stores  - the dicts bound to Cache.cache  (store id = index)          *)
(*   caches  - the Cache instances             (cache id = index)          *)
(* A LimitDict lives at stores[s][module][name]; setdefault never replaces *)
(* it, so <<s, module, name>> is its identity.  A storage dict that no      *)
(* Cache instance and no CacheVar refers to any more is garbage: its        *)
(* content is dropped, as the interpreter frees it.                         *)
(* Python None / a present value is written <<>> / <<v>>.                  *)
(***************************************************************************)
EXTENDS Integers, Sequences, FiniteSets, TLC

\* ------------------------------------------------------------------ bounds
MaxCaches == 2     \* Cache instances ever constructed
MaxStores == 2     \* storage dicts ever allocated
MaxOps    == 5     \* operations in one run, after the first Cache(globals())
MaxOpsFifo == 9    \* operations in one run of the re-run script
MaxKey    == 4     \* keys 0..MaxKey of the stand-alone LimitDict
MaxCap    == 3     \* capacities 1..MaxCap of the stand-alone LimitDict

None      == <<>>
Some(v)   == <<v>>
IsNone(o) == o = <<>>

\* ---------------------------------------------------------------- universe
GLOBAL_CACHE_NAME == "__GLOBAL_CACHE__"
SIZE_LIMIT == 10      \* the default of GLOBAL_CACHE_SIZE_LIMIT
Slots      == {GLOBAL_CACHE_NAME}
SizeLimits == {None, Some(1)}       \* size_limit arguments (None: the default)
Args       == {<<1>>, <<2>>}        \* positional argument tuples
KwargsIn   == {None}
Values     == {10, 20}
VarNames   == {<<"a">>}
HVars      == {"cvar1", "cvar2"}    \* program variables holding a CacheVar
DVars      == {"func"}              \* program variables holding a decorated function

\* The wrapped callables: expensive_func3(a), a plain function returning a*2.
\* (name: __name__, qualname: __qualname__, self: the class of __self__ for a
\* bound method, factor: what the body multiplies its argument by)
Fns == {[name |-> "expensive_func3", qualname |-> <<"expensive_func3">>,
         file |-> <<"globalcache/test.py">>, self |-> None, factor |-> 2]}

\* The value the wrapped computation returns.
Compute(fn, args) == args[1] * fn.factor

getsourcefile(fn) == fn.file

\* fn.__name__, prefixed by the class name of fn.__self__ when bound.
get_name(fn) == IF IsNone(fn.self) THEN <<fn.name>> ELSE <<fn.self[1]>> \o <<fn.name>>

VARIABLES
    Settings,    \* [DISABLE, SIZE_LIMIT]: the process-wide Settings class
    g,           \* the shared namespace: slot name -> cache id, 0 when absent
    caches,      \* heap of Cache instances [cache, _global_vars, size_limit]
    stores,      \* heap of storage dicts: module -> name -> LimitDict
    cvar,        \* program variables holding CacheVar handles (None when unset)
    funcs,       \* program variables holding decorated functions
    last,        \* what the last operation was, returned, raised and invoked
    declared,    \* per Cache instance, the names its var() has been given
    ld,          \* a stand-alone LimitDict
    inserted,    \* distinct keys of ld ever inserted, by latest insertion
    shelve       \* the durable store: <<module, name>> -> the entries of its file

vars == <<Settings, g, caches, stores, cvar, funcs, last, declared, ld, inserted,
          shelve>>

\* ---------------------------------------------------------------- LimitDict
EmptyDict == <<>>

Keys(items) == {items[i].key : i \in 1..Len(items)}
KeySeq(items) == [i \in 1..Len(items) |-> items[i].key]
IndexOf(items, k) == CHOOSE i \in 1..Len(items) : items[i].key = k
Lookup(items, k) == items[IndexOf(items, k)].value

\* (mutant) a store to an existing key is dropped
OrderedDict_setitem_keep(items, k, v) ==
    IF k \in Keys(items) THEN items
    ELSE Append(items, [key |-> k, value |-> v])

\* OrderedDict.__setitem__: an existing key keeps its place, a new one goes last.
OrderedDict_setitem(items, k, v) ==
    IF k \in Keys(items)
    THEN [items EXCEPT ![IndexOf(items, k)].value = v]
    ELSE Append(items, [key |-> k, value |-> v])

\* OrderedDict.__delitem__
OrderedDict_delitem(items, k) ==
    SelectSeq(items, LAMBDA e : e.key # k)

\* popitem(last=False) on an empty dict raises KeyError: the loop of
\* _check_size_limit reaches it when the limit is below zero.
CheckRaises(d) == ~IsNone(d.size_limit) /\ d.size_limit[1] < 0

\* (mutant) popitem(last=True): the newest entry goes instead of the oldest
RECURSIVE PopNewestWhileOver(_, _)
PopNewestWhileOver(items, limit) ==
    IF Len(items) > limit /\ Len(items) > 0
    THEN PopNewestWhileOver(SubSeq(items, 1, Len(items) - 1), limit)
    ELSE items

\* while len(self) > self.size_limit: self.popitem(last=False)
RECURSIVE PopWhileOver(_, _)
PopWhileOver(items, limit) ==
    IF Len(items) > limit /\ Len(items) > 0
    THEN PopWhileOver(Tail(items), limit)
    ELSE items

_check_size_limit(d) ==
    IF IsNone(d.size_limit) THEN d
    ELSE [d EXCEPT !.items = PopWhileOver(d.items, d.size_limit[1])]

LimitDict_init(size_limit) ==
    _check_size_limit([size_limit |-> size_limit, items |-> <<>>])

LimitDict_setitem(d, k, v) ==
    _check_size_limit([d EXCEPT !.items = OrderedDict_setitem(d.items, k, v)])

\* ------------------------------------------------------------------- dicts
Has(d, k) == k \in DOMAIN d
SetDefault(d, k, v) == IF Has(d, k) THEN d ELSE (k :> v) @@ d

\* Argument values that are list objects: hash() of one raises TypeError.
Unhashable == {100}

\* hash(v) returns
hashable(v) == v \notin Unhashable

\* frozenset(kwargs.items()) hashes every (name, value) item
frozenset_raises(items) == \E i \in DOMAIN items : ~hashable(items[i][2])

\* hash(self.key), made by every lookup in and store into self.fcache: the
\* hash of the tuple hashes the positional values; the frozenset is hashable.
hash_raises(key) == \E i \in DOMAIN key[1] : ~hashable(key[1][i])


\* ----------------------------------------------------------------- CacheVar
\* frozenset(kwargs.items()): a dict is the sequence of its (name, value)
\* items in insertion order, the frozenset is the set of them.
frozenset(items) == {items[i] : i \in DOMAIN items}

\* (mutant) the items are kept in the order the caller gave them
MakeKey_ordered(args, kwargs) == <<args, kwargs>>

\* key = (args, frozenset(kwargs.items())), kwargs None stays None.
MakeKey(args, kwargs) ==
    <<args, IF IsNone(kwargs) THEN None ELSE Some(frozenset(kwargs[1]))>>

\* The storage dict after the two setdefault calls of CacheVar.__init__.
CacheVar_store(store, module, name, size_limit) ==
    LET md == IF Has(store, module) THEN store[module] ELSE EmptyDict
    IN  (module :> SetDefault(md, name, LimitDict_init(size_limit))) @@ store

\* CacheVar.__init__ up to the construction of the LimitDict argument, when
\* that raises: only cache.cache.setdefault(module, {}) has run.
CacheVar_store_module(store, module) == SetDefault(store, module, EmptyDict)

\* LimitDict(_size_limit=size_limit) raises
LimitDict_raises(size_limit) == CheckRaises([size_limit |-> size_limit, items |-> <<>>])

\* The CacheVar: fcache is the LimitDict at <<store, module, name>>.
CacheVar_init(c, module, name, args, kwargs) ==
    [store |-> caches[c].cache, module |-> module, name |-> name,
     key |-> MakeKey(args, kwargs)]

\* self.fcache, read in the storage heap st
fcache(st, h) == st[h.store][h.module][h.name]

\* (mutant) the flag is not consulted
is_cached_flagless(st, h) == h.key \in Keys(fcache(st, h).items)

\* (mutant) every lookup is a miss
not_cached_always(st, h) == TRUE

is_cached(st, h) ==
    IF Settings.DISABLE THEN FALSE ELSE h.key \in Keys(fcache(st, h).items)

not_cached(st, h) ==
    IF Settings.DISABLE THEN TRUE ELSE h.key \notin Keys(fcache(st, h).items)

\* -------------------------------------------------------------------- last
\* The outcome of an operation: its return value, the exception it raised
\* and whether it ran the wrapped computation.
\* (op: the operation, c: the Cache it was called on, v: the program variable
\* holding the CacheVar or decorated function it was called through, input:
\* <<args, kwargs>> of a call of a decorated function)
Outcome(op, c, v, result, err, invoked) ==
    [op |-> op, c |-> c, v |-> v, result |-> result, err |-> err,
     invoked |-> invoked, input |-> <<>>, left |-> last.left - 1]

\* A run makes a bounded number of operations: last.left are left.
Ready == last.left > 0

Start(budget) ==
    [op |-> "import", c |-> 0, v |-> "", result |-> None, err |-> "",
     invoked |-> FALSE, input |-> <<>>, left |-> budget]

\* Storage dicts nothing refers to are freed.
Collect(st, cs, hs) ==
    LET live == {cs[c].cache : c \in 1..Len(cs)}
                \cup {hs[h][1].store : h \in {x \in DOMAIN hs : ~IsNone(hs[x])}}
    IN  [s \in 1..Len(st) |-> IF s \in live THEN st[s] ELSE EmptyDict]

\* What no operation of the in-memory cache touches: the stand-alone
\* LimitDict and the durable store.
LDVars == <<ld, inserted, shelve>>

\* The state after the module is imported (Settings read from the environment)
\* and the script's first `Cache(globals())` has run on an empty namespace:
\* set_globals took the `name not in g` branch.
Init ==
    /\ Settings = [DISABLE |-> FALSE, SIZE_LIMIT |-> Some(SIZE_LIMIT)]
    /\ g = [s \in Slots |-> 1]
    /\ caches = <<[cache |-> 1, _global_vars |-> {},
                   size_limit |-> Settings.SIZE_LIMIT]>>
    /\ stores = <<EmptyDict>>
    /\ cvar = [h \in HVars |-> None]
    /\ funcs = [d \in DVars |-> None]
    /\ last = Start(MaxOps)
    /\ declared = [c \in 1..MaxCaches |-> {}]
    /\ ld = LimitDict_init(None)
    /\ inserted = <<>>
    /\ shelve = EmptyDict

\* ------------------------------------------------------------------- Cache
\* (mutant) reset is not honoured: an existing Cache is always inherited from
Inherits_always(name, reset) == g[name] # 0

\* The body of set_globals for cache id c (a new or an existing instance):
\* the store the instance ends up with, allocated when it is a fresh dict.
Inherits(name, reset) == g[name] # 0 /\ ~reset

\* (mutant) the existing Cache's storage is copied, not shared
set_globals_copy(c, nameArg, reset, size_limitArg) ==
    LET name == IF IsNone(nameArg) THEN GLOBAL_CACHE_NAME ELSE nameArg[1]
        size_limit == IF IsNone(size_limitArg) THEN Settings.SIZE_LIMIT
                      ELSE size_limitArg
        obj == [cache |-> Len(stores) + 1, _global_vars |-> {},
                size_limit |-> size_limit]
        cs == IF c = Len(caches) + 1 THEN Append(caches, obj)
              ELSE [caches EXCEPT ![c] = obj]
        st == IF Inherits(name, reset)
              THEN Append(stores, stores[caches[g[name]].cache])
              ELSE Append(stores, EmptyDict)
    IN  /\ Len(stores) < MaxStores
        /\ stores' = Collect(st, cs, cvar)
        /\ caches' = cs
        /\ g' = [g EXCEPT ![name] = c]

\* (mutant) a Cache bound without a size limit has none
set_globals_nodefault(c, nameArg, reset, size_limitArg) ==
    LET name == IF IsNone(nameArg) THEN GLOBAL_CACHE_NAME ELSE nameArg[1]
        fresh == Len(stores) + 1
        store == IF Inherits(name, reset) THEN caches[g[name]].cache ELSE fresh
        obj == [cache |-> store, _global_vars |-> {}, size_limit |-> size_limitArg]
        cs == IF c = Len(caches) + 1 THEN Append(caches, obj)
              ELSE [caches EXCEPT ![c] = obj]
        st == IF Inherits(name, reset) THEN stores ELSE Append(stores, EmptyDict)
    IN  /\ Inherits(name, reset) \/ Len(stores) < MaxStores
        /\ stores' = Collect(st, cs, cvar)
        /\ caches' = cs
        /\ g' = [g EXCEPT ![name] = c]

set_globals(c, nameArg, reset, size_limitArg) ==
    LET name == IF IsNone(nameArg) THEN GLOBAL_CACHE_NAME ELSE nameArg[1]
        size_limit == IF IsNone(size_limitArg) THEN Settings.SIZE_LIMIT
                      ELSE size_limitArg
        fresh == Len(stores) + 1
        store == IF Inherits(name, reset) THEN caches[g[name]].cache ELSE fresh
        obj == [cache |-> store, _global_vars |-> {}, size_limit |-> size_limit]
        cs == IF c = Len(caches) + 1 THEN Append(caches, obj)
              ELSE [caches EXCEPT ![c] = obj]
        st == IF Inherits(name, reset) THEN stores ELSE Append(stores, EmptyDict)
    IN  /\ Inherits(name, reset) \/ Len(stores) < MaxStores
        /\ stores' = Collect(st, cs, cvar)
        /\ caches' = cs
        /\ g' = [g EXCEPT ![name] = c]

\* Cache(g, name, reset, size_limit)
Cache_init(nameArg, reset, size_limit) ==
    /\ Ready
    /\ Len(caches) < MaxCaches
    /\ set_globals(Len(caches) + 1, nameArg, reset, size_limit)
    /\ last' = Outcome("Cache", Len(caches) + 1, "", None, "", FALSE)
    /\ UNCHANGED <<Settings, cvar, funcs, declared, LDVars>>

\* cache.set_globals(g, name, reset, size_limit) on an existing instance
Cache_set_globals(c, nameArg, reset, size_limit) ==
    /\ Ready
    /\ c \in 1..Len(caches)
    /\ set_globals(c, nameArg, reset, size_limit)
    /\ last' = Outcome("set_globals", c, "", None, "", FALSE)
    /\ UNCHANGED <<Settings, cvar, funcs, declared, LDVars>>

\* cache.var(name, args, kwargs, size_limit), assigned to program variable hv
Cache_var(c, hv, name, args, kwargs, size_limitArg) ==
    /\ Ready
    /\ c \in 1..Len(caches)
    /\ IF name \in caches[c]._global_vars
       THEN /\ last' = Outcome("var", c, hv, None, "ValueError", FALSE)
            /\ UNCHANGED <<caches, stores, cvar, declared>>
       ELSE LET size_limit == IF IsNone(size_limitArg) THEN caches[c].size_limit
                              ELSE size_limitArg
                s == caches[c].cache
                hs == [cvar EXCEPT
                          ![hv] = Some(CacheVar_init(c, name, name, args, kwargs))]
                st == [stores EXCEPT
                          ![s] = CacheVar_store(@, name, name, size_limit)]
            IN  /\ caches' = [caches EXCEPT ![c]._global_vars = @ \cup {name}]
                /\ IF LimitDict_raises(size_limit)
                   THEN /\ stores' = [stores EXCEPT
                                         ![s] = CacheVar_store_module(@, name)]
                        /\ UNCHANGED <<cvar, declared>>
                        /\ last' = Outcome("var", c, hv, None, "KeyError", FALSE)
                   ELSE IF ~IsNone(kwargs) /\ frozenset_raises(kwargs[1])
                   THEN /\ stores' = st
                        /\ UNCHANGED <<cvar, declared>>
                        /\ last' = Outcome("var", c, hv, None, "TypeError", FALSE)
                   ELSE /\ stores' = Collect(st, caches, hs)
                        /\ cvar' = hs
                        /\ declared' = [declared EXCEPT ![c] = @ \cup {name}]
                        /\ last' = Outcome("var", c, hv, None, "", FALSE)
    /\ UNCHANGED <<Settings, g, funcs, LDVars>>

\* The storage heap after h.set(data)
StoresAfterSet(st, h, data) ==
    [st EXCEPT ![h.store][h.module][h.name] = LimitDict_setitem(@, h.key, data)]

\* (mutant) reset() removes nothing
StoresAfterReset_keep(st, h) == st

\* (mutant) reset() empties the whole map of the handle
StoresAfterReset_clear(st, h) ==
    [st EXCEPT ![h.store][h.module][h.name].items = <<>>]

\* The storage heap after h.reset()
StoresAfterReset(st, h) ==
    IF h.key \in Keys(st[h.store][h.module][h.name].items)
    THEN [st EXCEPT ![h.store][h.module][h.name].items =
                        OrderedDict_delitem(@, h.key)]
    ELSE st

\* cvar.set(data)
CacheVar_set(hv, data) ==
    /\ Ready
    /\ ~IsNone(cvar[hv])
    /\ IF hash_raises(cvar[hv][1].key)
       THEN /\ stores' = stores
            /\ last' = Outcome("set", 0, hv, None, "TypeError", FALSE)
       ELSE /\ stores' = StoresAfterSet(stores, cvar[hv][1], data)
            /\ last' = Outcome("set", 0, hv, Some(data), "", FALSE)
    /\ UNCHANGED <<Settings, g, caches, cvar, funcs, declared, LDVars>>

\* (mutant) get() of a missing key returns None instead of raising
CacheVar_get_swallow(st, h) ==
    IF h.key \in Keys(fcache(st, h).items)
    THEN [result |-> Some(Lookup(fcache(st, h).items, h.key)), err |-> ""]
    ELSE [result |-> None, err |-> ""]

\* What self.fcache[key] gives get(): the value, or KeyError turned ValueError.
CacheVar_get_result(st, h) ==
    IF h.key \in Keys(fcache(st, h).items)
    THEN [result |-> Some(Lookup(fcache(st, h).items, h.key)), err |-> ""]
    ELSE [result |-> None, err |-> "ValueError"]

\* (mutant) a read moves the key to the newest end, as an LRU cache would
StoresAfterGet_refresh(st, h) ==
    LET d == fcache(st, h)
    IN  IF h.key \in Keys(d.items)
        THEN [st EXCEPT ![h.store][h.module][h.name].items =
                 Append(OrderedDict_delitem(@, h.key),
                        [key |-> h.key, value |-> Lookup(d.items, h.key)])]
        ELSE st

\* The storage heap after h.get(): reading an OrderedDict leaves it as it is.
StoresAfterGet(st, h) == st

\* cvar.get()
CacheVar_get(hv) ==
    /\ Ready
    /\ ~IsNone(cvar[hv])
    /\ LET h == cvar[hv][1]
           r == CacheVar_get_result(stores, h)
       IN  IF hash_raises(h.key)
           THEN /\ last' = Outcome("get", 0, hv, None, "TypeError", FALSE)
                /\ stores' = stores
           ELSE /\ last' = Outcome("get", 0, hv, r.result, r.err, FALSE)
                /\ stores' = StoresAfterGet(stores, h)
    /\ UNCHANGED <<Settings, g, caches, cvar, funcs, declared, LDVars>>

\* cvar.reset()
CacheVar_reset(hv) ==
    /\ Ready
    /\ ~IsNone(cvar[hv])
    /\ IF hash_raises(cvar[hv][1].key)
       THEN /\ stores' = stores
            /\ last' = Outcome("reset", 0, hv, None, "TypeError", FALSE)
       ELSE /\ stores' = StoresAfterReset(stores, cvar[hv][1])
            /\ last' = Outcome("reset", 0, hv, None, "", FALSE)
    /\ UNCHANGED <<Settings, g, caches, cvar, funcs, declared, LDVars>>

\* _sub_decorate / decorate_reset: the closure over self, fn and size_limit
\* (decorate_reset reads self.size_limit at call time and captures none).
Closure(kind, c, fn, size_limit) ==
    [kind |-> kind, cache |-> c, fn |-> fn, module |-> getsourcefile(fn),
     name |-> get_name(fn), size_limit |-> size_limit]

\* cache.decorate(fn, size_limit, reset), the decorator it returns applied
\* to target, the result assigned to program variable dv
Cache_decorate(c, dv, fnArg, size_limit, reset, target) ==
    /\ Ready
    /\ c \in 1..Len(caches)
    /\ IF ~IsNone(fnArg)
       THEN /\ target = fnArg[1]
            /\ funcs' = [funcs EXCEPT ![dv] =
                            Some(Closure("plain", c, fnArg[1], caches[c].size_limit))]
            /\ last' = Outcome("decorate", c, dv, None, "", FALSE)
       ELSE IF reset
       THEN /\ funcs' = [funcs EXCEPT ![dv] = Some(Closure("reset", c, target, None))]
            /\ last' = Outcome("decorate", c, dv, None, "", FALSE)
       ELSE IF ~IsNone(size_limit)
       THEN /\ funcs' = [funcs EXCEPT ![dv] =
                            Some(Closure("plain", c, target, size_limit))]
            /\ last' = Outcome("decorate", c, dv, None, "", FALSE)
       ELSE /\ funcs' = funcs
            /\ last' = Outcome("decorate", c, dv, None, "ValueError", FALSE)
    /\ UNCHANGED <<Settings, g, caches, stores, cvar, declared, LDVars>>

\* The outcome of a call, with the arguments it was made with.
Called(outcome, args, kwargs) == [outcome EXCEPT !.input = <<args, kwargs>>]

\* (mutant) the force-recompute closure calls var.reset() before fn
StoresAfterRaise_reset(st, kind, h) ==
    IF kind = "reset" THEN StoresAfterReset(st, h) ELSE st

\* The storage heap after fn raised in a call: the exception leaves the closure
\* before var.reset() and var.set(out).
StoresAfterRaise(st, kind, h) == st

\* A call func(*args, **kwargs) of the decorated function held by dv; raised
\* tells whether fn(*args, **kwargs), if the call gets to it, raises.
CallFn(dv, args, kwargs, raised) ==
    /\ Ready
    /\ ~IsNone(funcs[dv])
    /\ LET f == funcs[dv][1]
           c == f.cache
           size_limit == IF f.kind = "reset" THEN caches[c].size_limit
                         ELSE f.size_limit
           st1 == [stores EXCEPT ![caches[c].cache] =
                      CacheVar_store(@, f.module, f.name, size_limit)]
           var == CacheVar_init(c, f.module, f.name, args, Some(kwargs))
           out == Compute(f.fn, args)
           got == CacheVar_get_result(st1, var)
           runs == f.kind = "reset" \/ Settings.DISABLE
       IN  IF LimitDict_raises(size_limit)
           THEN /\ stores' = [stores EXCEPT ![caches[c].cache] =
                                 CacheVar_store_module(@, f.module)]
                /\ last' = Called(Outcome("call", c, dv, None, "KeyError", FALSE), args, kwargs)
           ELSE IF frozenset_raises(kwargs)
           THEN /\ stores' = st1
                /\ last' = Called(Outcome("call", c, dv, None, "TypeError", FALSE), args, kwargs)
           ELSE IF hash_raises(var.key) /\ ~runs
           THEN /\ stores' = st1
                /\ last' = Called(Outcome("call", c, dv, None, "TypeError", FALSE), args, kwargs)
           ELSE IF raised /\ (runs \/ not_cached(st1, var))
           THEN /\ stores' = StoresAfterRaise(st1, f.kind, var)
                /\ last' = Called(Outcome("call", c, dv, None, "Exception", TRUE), args, kwargs)
           ELSE IF hash_raises(var.key)
           THEN /\ stores' = st1
                /\ last' = Called(Outcome("call", c, dv, None, "TypeError", TRUE), args, kwargs)
           ELSE IF f.kind = "reset"
           THEN /\ stores' = StoresAfterSet(StoresAfterReset(st1, var), var, out)
                /\ last' = Called(Outcome("call", c, dv, Some(out), "", TRUE), args, kwargs)
           ELSE IF not_cached(st1, var)
           THEN /\ stores' = StoresAfterSet(st1, var, out)
                /\ last' = Called(Outcome("call", c, dv, Some(out), "", TRUE), args, kwargs)
           ELSE /\ stores' = StoresAfterGet(st1, var)
                /\ last' = Called(Outcome("call", c, dv, got.result, got.err, FALSE), args, kwargs)
    /\ UNCHANGED <<Settings, g, caches, cvar, funcs, declared, LDVars>>

\* A call in which fn returns.
CallKw(dv, args, kwargs) == CallFn(dv, args, kwargs, FALSE)

\* A call func(*args): kwargs is the empty dict.
Call(dv, args) == CallKw(dv, args, EmptyDict)

\* (mutant) reset() empties every map of self.cache in place
Cache_reset_inplace(c) ==
    /\ Ready
    /\ c \in 1..Len(caches)
    /\ Len(stores) < MaxStores
    /\ stores' = [stores EXCEPT ![caches[c].cache] =
                     [m \in DOMAIN @ |->
                        [n \in DOMAIN @[m] |-> [@[m][n] EXCEPT !.items = <<>>]]]]
    /\ last' = Outcome("Cache.reset", c, "", None, "", FALSE)
    /\ UNCHANGED <<Settings, g, caches, cvar, funcs, declared, LDVars>>

\* (mutant) reset() leaves self.cache as it is
Cache_reset_keep(c) ==
    /\ Ready
    /\ c \in 1..Len(caches)
    /\ last' = Outcome("Cache.reset", c, "", None, "", FALSE)
    /\ UNCHANGED <<Settings, g, caches, stores, cvar, funcs, declared, LDVars>>

\* cache.reset(): self.cache = {}
Cache_reset(c) ==
    /\ Ready
    /\ c \in 1..Len(caches)
    /\ Len(stores) < MaxStores
    /\ LET cs == [caches EXCEPT ![c].cache = Len(stores) + 1]
       IN  /\ stores' = Collect(Append(stores, EmptyDict), cs, cvar)
           /\ caches' = cs
    /\ last' = Outcome("Cache.reset", c, "", None, "", FALSE)
    /\ UNCHANGED <<Settings, g, cvar, funcs, declared, LDVars>>

\* Settings.DISABLE = b
SetDisable(b) ==
    /\ Ready
    /\ Settings.DISABLE # b
    /\ Settings' = [Settings EXCEPT !.DISABLE = b]
    /\ last' = Outcome("Settings", 0, "", None, "", FALSE)
    /\ UNCHANGED <<g, caches, stores, cvar, funcs, declared, LDVars>>

\* Settings.SIZE_LIMIT = s
SetSizeLimit(s) ==
    /\ Ready
    /\ Settings.SIZE_LIMIT # s
    /\ Settings' = [Settings EXCEPT !.SIZE_LIMIT = s]
    /\ last' = Outcome("Settings", 0, "", None, "", FALSE)
    /\ UNCHANGED <<g, caches, stores, cvar, funcs, declared, LDVars>>

Callables == {None} \cup {Some(f) : f \in Fns}

Next ==
    \/ \E r \in BOOLEAN : Cache_init(None, r, None)
    \/ \E c \in 1..MaxCaches, r \in BOOLEAN : Cache_set_globals(c, None, r, None)
    \/ \E c \in 1..MaxCaches, hv \in HVars, n \in VarNames, a \in Args,
          k \in KwargsIn, s \in SizeLimits : Cache_var(c, hv, n, a, k, s)
    \/ \E hv \in HVars, v \in Values : CacheVar_set(hv, v)
    \/ \E hv \in HVars : CacheVar_get(hv)
    \/ \E hv \in HVars : CacheVar_reset(hv)
    \/ \E c \in 1..MaxCaches, dv \in DVars, f \in Callables,
          s \in SizeLimits, r \in BOOLEAN, t \in Fns :
          Cache_decorate(c, dv, f, s, r, t)
    \/ \E dv \in DVars, a \in Args : Call(dv, a)
    \/ \E c \in 1..MaxCaches : Cache_reset(c)
    \/ \E b \in BOOLEAN : SetDisable(b)

Spec == Init /\ [][Next]_vars

\* ------------------------------------------------- the LimitDict on its own
\* One LimitDict of capacity 1..MaxCap, keys (i, None) as cache.var('a', args=(i))
\* builds them, under any sequence of d[k] = v.
MainVars == <<Settings, g, caches, stores, cvar, funcs, last, declared>>
LDKeys == {MakeKey(i, None) : i \in 0..MaxKey}

InitLD ==
    /\ Settings = [DISABLE |-> FALSE, SIZE_LIMIT |-> Some(SIZE_LIMIT)]
    /\ g = [s \in Slots |-> 0]
    /\ caches = <<>>
    /\ stores = <<>>
    /\ cvar = [h \in HVars |-> None]
    /\ funcs = [d \in DVars |-> None]
    /\ last = Start(MaxOps)
    /\ declared = [c \in 1..MaxCaches |-> {}]
    /\ ld \in {LimitDict_init(Some(c)) : c \in 1..MaxCap}
    /\ inserted = <<>>
    /\ shelve = EmptyDict

\* ld[k] = v; `inserted` lists the distinct keys by their latest insertion,
\* an insertion being a store of a key the dict does not hold.
SetItem(k, v) ==
    /\ ld' = LimitDict_setitem(ld, k, v)
    /\ inserted' = IF k \in Keys(ld.items) THEN inserted
                   ELSE Append(SelectSeq(inserted, LAMBDA x : x # k), k)
    /\ UNCHANGED <<MainVars, shelve>>

NextLD == \E k \in LDKeys, v \in Values : SetItem(k, v)

SpecLD == InitLD /\ [][NextLD]_vars

\* ------------------------------------------------- one script, run again
\* One Cache whose script is run again and again (set_globals without reset
\* re-binds it and lets var() declare the name anew), with maps of capacity 2
\* over three argument values: long enough runs to fill a map, touch its
\* oldest key and overflow it.
Args3 == {<<1>>, <<2>>, <<3>>}

InitFifo ==
    /\ Settings = [DISABLE |-> FALSE, SIZE_LIMIT |-> Some(SIZE_LIMIT)]
    /\ g = [s \in Slots |-> 1]
    /\ caches = <<[cache |-> 1, _global_vars |-> {},
                   size_limit |-> Settings.SIZE_LIMIT]>>
    /\ stores = <<EmptyDict>>
    /\ cvar = [h \in HVars |-> None]
    /\ funcs = [d \in DVars |-> None]
    /\ last = Start(MaxOpsFifo)
    /\ declared = [c \in 1..MaxCaches |-> {}]
    /\ ld = LimitDict_init(None)
    /\ inserted = <<>>
    /\ shelve = EmptyDict

NextFifo ==
    \/ Cache_set_globals(1, None, FALSE, None)
    \/ \E hv \in HVars, n \in VarNames, a \in Args3 :
          Cache_var(1, hv, n, a, None, Some(2))
    \/ \E hv \in HVars, v \in Values : CacheVar_set(hv, v)
    \/ \E hv \in HVars : CacheVar_get(hv)
    \/ \E dv \in DVars, t \in Fns : Cache_decorate(1, dv, None, Some(2), FALSE, t)
    \/ \E dv \in DVars, a \in Args3 : Call(dv, a)

SpecFifo == InitFifo /\ [][NextFifo]_vars

\* ------------------------------------------------- one variable, capacity 1
\* One Cache whose script is run again and again, declaring the variable with
\* a map of capacity 1: a key is missing because it was never set, because
\* reset() removed it or because a store of the other key evicted it.
MaxOpsGet == 7

InitGet ==
    /\ Settings = [DISABLE |-> FALSE, SIZE_LIMIT |-> Some(SIZE_LIMIT)]
    /\ g = [s \in Slots |-> 1]
    /\ caches = <<[cache |-> 1, _global_vars |-> {},
                   size_limit |-> Settings.SIZE_LIMIT]>>
    /\ stores = <<EmptyDict>>
    /\ cvar = [h \in HVars |-> None]
    /\ funcs = [d \in DVars |-> None]
    /\ last = Start(MaxOpsGet)
    /\ declared = [c \in 1..MaxCaches |-> {}]
    /\ ld = LimitDict_init(None)
    /\ inserted = <<>>
    /\ shelve = EmptyDict

NextGet ==
    \/ Cache_set_globals(1, None, FALSE, None)
    \/ \E hv \in HVars, n \in VarNames, a \in Args :
          Cache_var(1, hv, n, a, None, Some(1))
    \/ \E hv \in HVars, v \in Values : CacheVar_set(hv, v)
    \/ \E hv \in HVars : CacheVar_get(hv)
    \/ \E hv \in HVars : CacheVar_reset(hv)
    \/ \E b \in BOOLEAN : SetDisable(b)

SpecGet == InitGet /\ [][NextGet]_vars

\* ------------------------------------------------- limits that are not positive
\* One Cache whose script is run again and again, declaring the variable with
\* a size limit of 0 or below 0.
MaxOpsCap == 6
NonPositive == {Some(0), Some(0 - 1)}

InitCap ==
    /\ Settings = [DISABLE |-> FALSE, SIZE_LIMIT |-> Some(SIZE_LIMIT)]
    /\ g = [s \in Slots |-> 1]
    /\ caches = <<[cache |-> 1, _global_vars |-> {},
                   size_limit |-> Settings.SIZE_LIMIT]>>
    /\ stores = <<EmptyDict>>
    /\ cvar = [h \in HVars |-> None]
    /\ funcs = [d \in DVars |-> None]
    /\ last = Start(MaxOpsCap)
    /\ declared = [c \in 1..MaxCaches |-> {}]
    /\ ld = LimitDict_init(None)
    /\ inserted = <<>>
    /\ shelve = EmptyDict

NextCap ==
    \/ Cache_set_globals(1, None, FALSE, None)
    \/ \E hv \in HVars, n \in VarNames, a \in Args, s \in NonPositive :
          Cache_var(1, hv, n, a, None, s)
    \/ \E hv \in HVars, v \in Values : CacheVar_set(hv, v)
    \/ \E hv \in HVars : CacheVar_get(hv)
    \/ \E dv \in DVars, s \in NonPositive, t \in Fns :
          Cache_decorate(1, dv, None, s, FALSE, t)
    \/ \E dv \in DVars, a \in Args : Call(dv, a)

SpecCap == InitCap /\ [][NextCap]_vars

\* ------------------------------------------------- the default size limit
\* One Cache bound without a size limit of its own, under a default that the
\* environment gives and the program may assign; variables and decorated
\* functions that give no size limit either.
MaxOpsDefault == 5
Defaults == {None, Some(1), Some(2)}

InitDefault ==
    /\ Settings \in {[DISABLE |-> FALSE, SIZE_LIMIT |-> d] : d \in Defaults}
    /\ g = [s \in Slots |-> 1]
    /\ caches = <<[cache |-> 1, _global_vars |-> {},
                   size_limit |-> Settings.SIZE_LIMIT]>>
    /\ stores = <<EmptyDict>>
    /\ cvar = [h \in HVars |-> None]
    /\ funcs = [d \in DVars |-> None]
    /\ last = Start(MaxOpsDefault)
    /\ declared = [c \in 1..MaxCaches |-> {}]
    /\ ld = LimitDict_init(None)
    /\ inserted = <<>>
    /\ shelve = EmptyDict

NextDefault ==
    \/ \E d \in Defaults : SetSizeLimit(d)
    \/ \E r \in BOOLEAN : Cache_set_globals(1, None, r, None)
    \/ \E hv \in HVars, n \in VarNames, a \in Args3 :
          Cache_var(1, hv, n, a, None, None)
    \/ \E hv \in HVars, v \in Values : CacheVar_set(hv, v)
    \/ \E dv \in DVars, f \in Fns : Cache_decorate(1, dv, Some(f), None, FALSE, f)
    \/ \E dv \in DVars, a \in Args3 : Call(dv, a)

SpecDefault == InitDefault /\ [][NextDefault]_vars

\* ------------------------------------------------- functions of one name
\* Callables that share a __name__: f, defined in class A and in class B of
\* one file (static methods, decorated in the class body, where they are plain
\* functions) and at the top of another file; m, the bound methods of an
\* instance of C and of an instance of D.
MaxOpsOwner == 5
DVars2 == {"func", "func2"}
Owned ==
    {[name |-> "f", qualname |-> <<"A", "f">>, file |-> <<"module1.py">>,
      self |-> None, factor |-> 3],
     [name |-> "f", qualname |-> <<"B", "f">>, file |-> <<"module1.py">>,
      self |-> None, factor |-> 5],
     [name |-> "f", qualname |-> <<"f">>, file |-> <<"module2.py">>,
      self |-> None, factor |-> 7],
     [name |-> "m", qualname |-> <<"C", "m">>, file |-> <<"module1.py">>,
      self |-> Some("C"), factor |-> 3],
     [name |-> "m", qualname |-> <<"D", "m">>, file |-> <<"module1.py">>,
      self |-> Some("D"), factor |-> 5]}

\* The module and class (or enclosing function) a callable is defined in.
Owner(fn) == <<fn.file, SubSeq(fn.qualname, 1, Len(fn.qualname) - 1)>>

InitOwner ==
    /\ Settings = [DISABLE |-> FALSE, SIZE_LIMIT |-> Some(SIZE_LIMIT)]
    /\ g = [s \in Slots |-> 1]
    /\ caches = <<[cache |-> 1, _global_vars |-> {},
                   size_limit |-> Settings.SIZE_LIMIT]>>
    /\ stores = <<EmptyDict>>
    /\ cvar = [h \in HVars |-> None]
    /\ funcs = [d \in DVars2 |-> None]
    /\ last = Start(MaxOpsOwner)
    /\ declared = [c \in 1..MaxCaches |-> {}]
    /\ ld = LimitDict_init(None)
    /\ inserted = <<>>
    /\ shelve = EmptyDict

NextOwner ==
    \/ \E dv \in DVars2, f \in Owned : Cache_decorate(1, dv, Some(f), None, FALSE, f)
    \/ \E dv \in DVars2, f \in Owned : Cache_decorate(1, dv, None, Some(1), FALSE, f)
    \/ \E dv \in DVars2, a \in Args : Call(dv, a)

SpecOwner == InitOwner /\ [][NextOwner]_vars

\* ------------------------------------------------- keys
\* One decorated function of two positional and two keyword parameters,
\* called with positional values in both orders and with the keyword items
\* in both orders.
MaxOpsKey == 4
ArgsK == {<<1, 2>>, <<2, 1>>, <<1, 1>>}
KwargsK ==
    {EmptyDict,
     <<<<"b", 1>>, <<"c", 2>>>>,
     <<<<"c", 2>>, <<"b", 1>>>>,
     <<<<"b", 2>>, <<"c", 2>>>>,
     <<<<"c", 2>>, <<"b", 2>>>>}
FnsK == {[name |-> "k", qualname |-> <<"k">>, file |-> <<"module1.py">>,
          self |-> None, factor |-> 3]}

InitKey ==
    /\ Settings = [DISABLE |-> FALSE, SIZE_LIMIT |-> Some(SIZE_LIMIT)]
    /\ g = [s \in Slots |-> 1]
    /\ caches = <<[cache |-> 1, _global_vars |-> {},
                   size_limit |-> Settings.SIZE_LIMIT]>>
    /\ stores = <<EmptyDict>>
    /\ cvar = [h \in HVars |-> None]
    /\ funcs = [d \in DVars |-> None]
    /\ last = Start(MaxOpsKey)
    /\ declared = [c \in 1..MaxCaches |-> {}]
    /\ ld = LimitDict_init(None)
    /\ inserted = <<>>
    /\ shelve = EmptyDict

NextKey ==
    \/ \E dv \in DVars, f \in FnsK : Cache_decorate(1, dv, Some(f), None, FALSE, f)
    \/ \E dv \in DVars, a \in ArgsK, k \in KwargsK : CallKw(dv, a, k)

SpecKey == InitKey /\ [][NextKey]_vars

\* ------------------------------------------------- decorate with reset
\* Functions decorated with reset=True only, the function given to decorate
\* itself or to the decorator that decorate returns.
MaxOpsReset == 5

InitReset ==
    /\ Settings = [DISABLE |-> FALSE, SIZE_LIMIT |-> Some(SIZE_LIMIT)]
    /\ g = [s \in Slots |-> 1]
    /\ caches = <<[cache |-> 1, _global_vars |-> {},
                   size_limit |-> Settings.SIZE_LIMIT]>>
    /\ stores = <<EmptyDict>>
    /\ cvar = [h \in HVars |-> None]
    /\ funcs = [d \in DVars2 |-> None]
    /\ last = Start(MaxOpsReset)
    /\ declared = [c \in 1..MaxCaches |-> {}]
    /\ ld = LimitDict_init(None)
    /\ inserted = <<>>
    /\ shelve = EmptyDict

NextReset ==
    \/ \E dv \in DVars2, f \in Callables, t \in Fns :
          Cache_decorate(1, dv, f, None, TRUE, t)
    \/ \E dv \in DVars2, a \in Args3 : Call(dv, a)

SpecReset == InitReset /\ [][NextReset]_vars

\* ------------------------------------------------- the durable store
\* The persistence tier of decorate(save=True), whose code is not among the
\* sources: modelled from the specification. One file per (module, name),
\* holding key -> value; a lookup reads the in-memory map, then the file, and
\* a value found in the file goes into the map; a computed value is written
\* to both; the file of a function can be deleted.
MaxOpsSave == 6

\* The entries of the file of (module, name), none when there is no file.
ShelveFile(sh, module, name) ==
    IF Has(sh, <<module, name>>) THEN sh[<<module, name>>] ELSE EmptyDict

\* read(key) -> value or miss
Durable_read(sh, module, name, key) ==
    IF key \in Keys(ShelveFile(sh, module, name))
    THEN Some(Lookup(ShelveFile(sh, module, name), key))
    ELSE None

\* (mutant) a computed value is not written through
Durable_write_skip(sh, module, name, key, value) == sh

\* write(key, value)
Durable_write(sh, module, name, key, value) ==
    (<<module, name>> :> OrderedDict_setitem(ShelveFile(sh, module, name), key, value))
       @@ sh

\* (mutant) the file stays
Durable_delete_keep(sh, module, name) == sh

\* delete(storeFile)
Durable_delete(sh, module, name) ==
    [x \in (DOMAIN sh) \ {<<module, name>>} |-> sh[x]]

\* cache.decorate(save=True)(target), assigned to program variable dv
Cache_decorate_save(c, dv, target) ==
    /\ Ready
    /\ c \in 1..Len(caches)
    /\ funcs' = [funcs EXCEPT ![dv] =
                    Some(Closure("save", c, target, caches[c].size_limit))]
    /\ last' = Outcome("decorate", c, dv, None, "", FALSE)
    /\ UNCHANGED <<Settings, g, caches, stores, cvar, declared, ld, inserted, shelve>>

\* A call func(*args, **kwargs) of a function decorated with save=True.
CallSaved(dv, args, kwargs) ==
    /\ Ready
    /\ ~IsNone(funcs[dv])
    /\ funcs[dv][1].kind = "save"
    /\ LET f == funcs[dv][1]
           c == f.cache
           st1 == [stores EXCEPT ![caches[c].cache] =
                      CacheVar_store(@, f.module, f.name, f.size_limit)]
           var == CacheVar_init(c, f.module, f.name, args, Some(kwargs))
           out == Compute(f.fn, args)
           got == CacheVar_get_result(st1, var)
           kept == Durable_read(shelve, f.module, f.name, var.key)
       IN  IF ~not_cached(st1, var)
           THEN /\ stores' = StoresAfterGet(st1, var)
                /\ shelve' = shelve
                /\ last' = Called(Outcome("call", c, dv, got.result, got.err, FALSE),
                                  args, kwargs)
           ELSE IF ~Settings.DISABLE /\ ~IsNone(kept)
           THEN /\ stores' = StoresAfterSet(st1, var, kept[1])
                /\ shelve' = shelve
                /\ last' = Called(Outcome("call", c, dv, kept, "", FALSE), args, kwargs)
           ELSE /\ stores' = StoresAfterSet(st1, var, out)
                /\ shelve' = Durable_write(shelve, f.module, f.name, var.key, out)
                /\ last' = Called(Outcome("call", c, dv, Some(out), "", TRUE),
                                  args, kwargs)
    /\ UNCHANGED <<Settings, g, caches, cvar, funcs, declared, ld, inserted>>

\* deletePersisted(fn) for the function held by dv
DeletePersisted(dv) ==
    /\ Ready
    /\ ~IsNone(funcs[dv])
    /\ shelve' = Durable_delete(shelve, funcs[dv][1].module, funcs[dv][1].name)
    /\ last' = Outcome("delete", funcs[dv][1].cache, dv, None, "", FALSE)
    /\ UNCHANGED <<Settings, g, caches, stores, cvar, funcs, declared, ld, inserted>>

InitSave ==
    /\ Settings = [DISABLE |-> FALSE, SIZE_LIMIT |-> Some(SIZE_LIMIT)]
    /\ g = [s \in Slots |-> 1]
    /\ caches = <<[cache |-> 1, _global_vars |-> {},
                   size_limit |-> Settings.SIZE_LIMIT]>>
    /\ stores = <<EmptyDict>>
    /\ cvar = [h \in HVars |-> None]
    /\ funcs = [d \in DVars2 |-> None]
    /\ last = Start(MaxOpsSave)
    /\ declared = [c \in 1..MaxCaches |-> {}]
    /\ ld = LimitDict_init(None)
    /\ inserted = <<>>
    /\ shelve = EmptyDict

NextSave ==
    \/ \E c \in 1..MaxCaches, dv \in DVars2, t \in Fns : Cache_decorate_save(c, dv, t)
    \/ \E dv \in DVars2, a \in Args : CallSaved(dv, a, EmptyDict)
    \/ \E dv \in DVars2 : DeletePersisted(dv)
    \/ \E c \in 1..MaxCaches : Cache_reset(c)
    \/ Cache_init(None, FALSE, None)

SpecSave == InitSave /\ [][NextSave]_vars

\* ------------------------------------------------- one map, several limits
\* One Cache whose script is run again and again and refers to the map of its
\* variable, and to the map of its function, with a size limit that differs
\* from one reference to the next.
MaxOpsLimit == 5
Limits == {None, Some(1), Some(2), Some(0 - 1)}

InitLimit ==
    /\ Settings = [DISABLE |-> FALSE, SIZE_LIMIT |-> Some(SIZE_LIMIT)]
    /\ g = [s \in Slots |-> 1]
    /\ caches = <<[cache |-> 1, _global_vars |-> {},
                   size_limit |-> Settings.SIZE_LIMIT]>>
    /\ stores = <<EmptyDict>>
    /\ cvar = [h \in HVars |-> None]
    /\ funcs = [d \in DVars |-> None]
    /\ last = Start(MaxOpsLimit)
    /\ declared = [c \in 1..MaxCaches |-> {}]
    /\ ld = LimitDict_init(None)
    /\ inserted = <<>>
    /\ shelve = EmptyDict

NextLimit ==
    \/ Cache_set_globals(1, None, FALSE, None)
    \/ \E hv \in HVars, n \in VarNames, a \in Args, s \in Limits :
          Cache_var(1, hv, n, a, None, s)
    \/ \E hv \in HVars, v \in Values : CacheVar_set(hv, v)
    \/ \E dv \in DVars, s \in Limits \ {None}, t \in Fns :
          Cache_decorate(1, dv, None, s, FALSE, t)
    \/ \E dv \in DVars, a \in Args : Call(dv, a)

SpecLimit == InitLimit /\ [][NextLimit]_vars

\* ------------------------------------------------- removal of one key
\* One Cache whose script is run again and again; it declares variables of two
\* names with three argument tuples, sets them and resets them.
MaxOpsDel == 11
VarNames2 == {<<"a">>, <<"b">>}
Declared == ({<<"a">>} \X Args3) \cup {<<(<<"b">>), (<<1>>)>>}

InitDel ==
    /\ Settings = [DISABLE |-> FALSE, SIZE_LIMIT |-> Some(SIZE_LIMIT)]
    /\ g = [s \in Slots |-> 1]
    /\ caches = <<[cache |-> 1, _global_vars |-> {},
                   size_limit |-> Settings.SIZE_LIMIT]>>
    /\ stores = <<EmptyDict>>
    /\ cvar = [h \in HVars |-> None]
    /\ funcs = [d \in DVars |-> None]
    /\ last = Start(MaxOpsDel)
    /\ declared = [c \in 1..MaxCaches |-> {}]
    /\ ld = LimitDict_init(None)
    /\ inserted = <<>>
    /\ shelve = EmptyDict

NextDel ==
    \/ Cache_set_globals(1, None, FALSE, None)
    \/ \E hv \in HVars, d \in Declared : Cache_var(1, hv, d[1], d[2], None, None)
    \/ \E hv \in HVars : CacheVar_set(hv, cvar[hv][1].key[1][1] * 10)
    \/ \E hv \in HVars : CacheVar_reset(hv)

SpecDel == InitDel /\ [][NextDel]_vars

\* ------------------------------------------------- unhashable arguments
\* One Cache; variables and decorated functions are given positional and
\* keyword values that are lists.
MaxOpsHash == 4
ArgsH == {<<1>>, <<100>>}
KwargsH == {EmptyDict, <<<<"k", 100>>>>}

InitHash ==
    /\ Settings = [DISABLE |-> FALSE, SIZE_LIMIT |-> Some(SIZE_LIMIT)]
    /\ g = [s \in Slots |-> 1]
    /\ caches = <<[cache |-> 1, _global_vars |-> {},
                   size_limit |-> Settings.SIZE_LIMIT]>>
    /\ stores = <<EmptyDict>>
    /\ cvar = [h \in HVars |-> None]
    /\ funcs = [d \in DVars |-> None]
    /\ last = Start(MaxOpsHash)
    /\ declared = [c \in 1..MaxCaches |-> {}]
    /\ ld = LimitDict_init(None)
    /\ inserted = <<>>
    /\ shelve = EmptyDict

NextHash ==
    \/ Cache_set_globals(1, None, FALSE, None)
    \/ \E hv \in HVars, n \in VarNames, a \in ArgsH, k \in KwargsH :
          Cache_var(1, hv, n, a, Some(k), None)
    \/ \E hv \in HVars, v \in Values : CacheVar_set(hv, v)
    \/ \E hv \in HVars : CacheVar_get(hv)
    \/ \E hv \in HVars : CacheVar_reset(hv)
    \/ \E dv \in DVars, r \in BOOLEAN, t \in Fns :
          Cache_decorate(1, dv, None, None, r, t)
    \/ \E dv \in DVars, a \in ArgsH, k \in KwargsH : CallKw(dv, a, k)
    \/ \E b \in BOOLEAN : SetDisable(b)

SpecHash == InitHash /\ [][NextHash]_vars

\* ------------------------------------------------- calls among everything else
\* One Cache with maps of capacity 1: decorated functions of one name from two
\* classes of a module and from another module, called with two arguments,
\* next to variable sets, resets of the Cache and new runs of the script.
MaxOpsMix == 5
Mixed == {f \in Owned : IsNone(f.self)}

InitMix ==
    /\ Settings = [DISABLE |-> FALSE, SIZE_LIMIT |-> Some(SIZE_LIMIT)]
    /\ g = [s \in Slots |-> 1]
    /\ caches = <<[cache |-> 1, _global_vars |-> {},
                   size_limit |-> Settings.SIZE_LIMIT]>>
    /\ stores = <<EmptyDict>>
    /\ cvar = [h \in HVars |-> None]
    /\ funcs = [d \in DVars2 |-> None]
    /\ last = Start(MaxOpsMix)
    /\ declared = [c \in 1..MaxCaches |-> {}]
    /\ ld = LimitDict_init(None)
    /\ inserted = <<>>
    /\ shelve = EmptyDict

NextMix ==
    \/ \E dv \in DVars2, f \in Mixed : Cache_decorate(1, dv, None, Some(1), FALSE, f)
    \/ \E dv \in DVars2, a \in Args : Call(dv, a)
    \/ \E hv \in HVars, n \in VarNames, a \in Args :
          Cache_var(1, hv, n, a, None, Some(1))
    \/ \E hv \in HVars, v \in Values : CacheVar_set(hv, v)
    \/ Cache_reset(1)
    \/ \E r \in BOOLEAN : Cache_set_globals(1, None, r, None)

SpecMix == InitMix /\ [][NextMix]_vars

\* ------------------------------------------------- a function that raises
\* One Cache and one function, decorated plainly and with reset=True, whose
\* body may raise; maps of capacity 1 and of the default capacity.
MaxOpsRaise == 5

InitRaise ==
    /\ Settings = [DISABLE |-> FALSE, SIZE_LIMIT |-> Some(SIZE_LIMIT)]
    /\ g = [s \in Slots |-> 1]
    /\ caches = <<[cache |-> 1, _global_vars |-> {},
                   size_limit |-> Settings.SIZE_LIMIT]>>
    /\ stores = <<EmptyDict>>
    /\ cvar = [h \in HVars |-> None]
    /\ funcs = [d \in DVars2 |-> None]
    /\ last = Start(MaxOpsRaise)
    /\ declared = [c \in 1..MaxCaches |-> {}]
    /\ ld = LimitDict_init(None)
    /\ inserted = <<>>
    /\ shelve = EmptyDict

NextRaise ==
    \/ \E dv \in DVars2, s \in SizeLimits \ {None}, t \in Fns :
          Cache_decorate(1, dv, None, s, FALSE, t)
    \/ \E dv \in DVars2, t \in Fns : Cache_decorate(1, dv, None, None, TRUE, t)
    \/ \E dv \in DVars2, a \in Args, raised \in BOOLEAN :
          CallFn(dv, a, EmptyDict, raised)
    \/ \E b \in BOOLEAN : SetDisable(b)

SpecRaise == InitRaise /\ [][NextRaise]_vars

\* ------------------------------------------------- handles across a reset
\* One Cache that is reset between runs of a script declaring one variable and
\* calling one decorated function.
MaxOpsStale == 6

InitStale ==
    /\ Settings = [DISABLE |-> FALSE, SIZE_LIMIT |-> Some(SIZE_LIMIT)]
    /\ g = [s \in Slots |-> 1]
    /\ caches = <<[cache |-> 1, _global_vars |-> {},
                   size_limit |-> Settings.SIZE_LIMIT]>>
    /\ stores = <<EmptyDict>>
    /\ cvar = [h \in HVars |-> None]
    /\ funcs = [d \in DVars |-> None]
    /\ last = Start(MaxOpsStale)
    /\ declared = [c \in 1..MaxCaches |-> {}]
    /\ ld = LimitDict_init(None)
    /\ inserted = <<>>
    /\ shelve = EmptyDict

NextStale ==
    \/ Cache_set_globals(1, None, FALSE, None)
    \/ \E hv \in HVars, n \in VarNames, a \in Args : Cache_var(1, hv, n, a, None, None)
    \/ \E hv \in HVars, v \in Values : CacheVar_set(hv, v)
    \/ \E hv \in HVars : CacheVar_get(hv)
    \/ \E dv \in DVars, t \in Fns : Cache_decorate(1, dv, Some(t), None, FALSE, t)
    \/ \E dv \in DVars, a \in Args : Call(dv, a)
    \/ Cache_reset(1)

SpecStale == InitStale /\ [][NextStale]_vars

\* ==================================================================== claims
Min(a, b) == IF a < b THEN a ELSE b

\* The value stored in heap st under the cell <<store, module, name, key>> of
\* CacheVar h, None when the map or the key is not there.
Stored(st, h) ==
    IF /\ h.store \in 1..Len(st)
       /\ Has(st[h.store], h.module)
       /\ Has(st[h.store][h.module], h.name)
       /\ h.key \in Keys(fcache(st, h).items)
    THEN Some(Lookup(fcache(st, h).items, h.key))
    ELSE None

\* The CacheVar a call func(*args) of the function held by dv builds.
CallVar(dv, args) ==
    LET f == funcs[dv][1]
    IN  CacheVar_init(f.cache, f.module, f.name, args, Some(EmptyDict))

Held == {hv \in HVars : ~IsNone(cvar[hv])}

\* C1: a LimitDict of capacity C > 0 never holds more than C entries, and after
\* n distinct keys were inserted it holds exactly the min(n, C) most recently
\* inserted ones, oldest first: each insertion into a full dict drops exactly
\* the oldest surviving key.
C1_KeepsNewest ==
    LET n == Len(inserted)
        C == ld.size_limit[1]
        m == Min(n, C)
    IN  /\ Len(ld.items) <= C
        /\ KeySeq(ld.items) = SubSeq(inserted, n - m + 1, n)

\* Capacity 3, keys 0..4 inserted in order: exactly 2, 3, 4 are left.
C1_Witness ==
    /\ ld.size_limit = Some(3)
    /\ inserted = [i \in 1..5 |-> MakeKey(i - 1, None)]
    /\ Keys(ld.items) = {MakeKey(i, None) : i \in 2..4}
    /\ Len(ld.items) = 3

\* C2: with caching enabled, a call of a decorated function whose arguments
\* have an entry (stored by an earlier call and neither evicted nor reset
\* since) does not invoke the computation, returns the stored result and
\* changes nothing; a call with arguments that have no entry invokes it.
C2_SecondCallIsHit ==
    [][\A dv \in DVars, a \in Args :
          (Call(dv, a) /\ funcs[dv][1].kind = "plain" /\ ~Settings.DISABLE) =>
              IF Stored(stores, CallVar(dv, a)) # None
              THEN /\ ~last'.invoked
                   /\ last'.err = ""
                   /\ last'.result = Stored(stores, CallVar(dv, a))
                   /\ stores' = stores
              ELSE /\ last'.invoked
                   /\ last'.result = Some(Compute(funcs[dv][1].fn, a))]_vars

\* A call returned 2 = f(1) without running f: the second call with argument 1.
C2_Witness ==
    /\ last.op = "call" /\ ~last.invoked /\ last.result = Some(2)
    /\ ~Settings.DISABLE
    /\ funcs[last.v][1].kind = "plain"

\* C3: set(v) returns v and leaves v stored under the handle's key; get()
\* through any handle of a key that is stored returns the stored value; and
\* the value stored under a key that stays stored changes only by a set
\* through a handle of that key, to the value set.
C3_SetThenGet ==
    [][/\ \A hv \in HVars, v \in Values :
            CacheVar_set(hv, v) =>
                /\ last'.result = Some(v)
                /\ Stored(stores', cvar[hv][1]) = Some(v)
       /\ \A hv \in HVars :
            (CacheVar_get(hv) /\ Stored(stores, cvar[hv][1]) # None) =>
                /\ last'.err = ""
                /\ last'.result = Stored(stores, cvar[hv][1])
       /\ \A hv \in Held :
            LET h == cvar[hv][1]
            IN  (/\ Stored(stores, h) # None
                 /\ Stored(stores', h) # None
                 /\ Stored(stores', h) # Stored(stores, h)) =>
                    /\ last'.op = "set"
                    /\ cvar[last'.v][1] = h
                    /\ Stored(stores', h) = last'.result]_vars

\* cvar1 and cvar2 are handles of the same key, declared through two Cache
\* instances, and get() through cvar2 has returned the 20 that was set.
C3_Witness ==
    /\ last.op = "get" /\ last.v = "cvar2" /\ last.result = Some(20)
    /\ ~IsNone(cvar["cvar1"]) /\ cvar["cvar1"] = cvar["cvar2"]
    /\ declared[1] # {} /\ declared[2] # {}

\* C4: while Settings.DISABLE is set, every handle reports not_cached and not
\* is_cached whatever was set through it, and every call of a decorated
\* function runs the computation; while it is clear the two predicates report
\* whether the key is stored.  Both follow the flag as it is now.
C4_DisableIsLive ==
    /\ Settings.DISABLE =>
          /\ \A hv \in Held : /\ not_cached(stores, cvar[hv][1])
                               /\ ~is_cached(stores, cvar[hv][1])
          /\ last.op = "call" => last.invoked
    /\ ~Settings.DISABLE =>
          \A hv \in Held :
              /\ is_cached(stores, cvar[hv][1]) = (Stored(stores, cvar[hv][1]) # None)
              /\ not_cached(stores, cvar[hv][1]) = (Stored(stores, cvar[hv][1]) = None)

\* The flag was set after a handle was created and a value set through it.
C4_Witness ==
    /\ Settings.DISABLE /\ last.op = "Settings"
    /\ \E hv \in Held : Stored(stores, cvar[hv][1]) # None

\* The cells a lookup can name in storage dict number store: those of the
\* variables and those of the decorated functions.
CellsIn(store) ==
    {[store |-> store, module |-> n, name |-> n, key |-> MakeKey(a, k)] :
        n \in VarNames, a \in Args3, k \in KwargsIn}
    \cup {[store |-> store, module |-> getsourcefile(f), name |-> get_name(f),
           key |-> MakeKey(a, Some(EmptyDict))] : f \in Fns, a \in Args3}

\* The step binds cache c to the namespace with the given reset argument,
\* by construction of a new Cache or by set_globals on an existing one.
Binds(c, reset) ==
    \/ c = Len(caches) + 1 /\ Cache_init(None, reset, None)
    \/ Cache_set_globals(c, None, reset, None)

\* C5: var(name) raises the duplicate-name error whenever name was declared
\* through var on that Cache instance before, whatever was done with the
\* instance in between, and the failing call changes nothing in the cache; a
\* name not yet declared on the instance (though declared on another one) is
\* accepted.
C5_DuplicateAlwaysFails ==
    [][\A c \in 1..MaxCaches, hv \in HVars, n \in VarNames, a \in Args,
          k \in KwargsIn, s \in SizeLimits :
          Cache_var(c, hv, n, a, k, s) =>
            IF n \in declared[c]
            THEN last'.err = "ValueError" /\ UNCHANGED <<stores, caches, cvar>>
            ELSE last'.err = ""]_vars

\* C6: get() on a handle whose key holds no value raises (ValueError,
\* 'Variable not yet set.'), returns nothing, and changes nothing in the cache.
C6_GetOfMissingFails ==
    [][\A hv \in HVars :
          (CacheVar_get(hv) /\ IsNone(Stored(stores, cvar[hv][1]))) =>
            /\ last'.err = "ValueError"
            /\ IsNone(last'.result)
            /\ UNCHANGED <<stores, caches, g, cvar, funcs, Settings>>]_vars

\* get() failed on a key that was set and then evicted by a store of the
\* other key, which the map still holds.
C6_Witness ==
    /\ last.op = "get"
    /\ last.err = "ValueError"
    /\ cvar[last.v][1].key = MakeKey(<<1>>, None)
    /\ KeySeq(fcache(stores, cvar[last.v][1]).items) = <<MakeKey(<<2>>, None)>>

\* C7: a bind without reset on a namespace that holds a Cache gives the bound
\* Cache the very storage dict of that Cache (the same object, with its
\* entries as they are) and puts the bound Cache in the slot; two Caches that
\* share a storage dict keep sharing it, so that a store through one is seen
\* through the other, until one of them is bound again or reset.
C7_InheritsByReference ==
    [][/\ \A c \in 1..MaxCaches :
            (Binds(c, FALSE) /\ g[GLOBAL_CACHE_NAME] # 0) =>
              LET old == caches[g[GLOBAL_CACHE_NAME]].cache
              IN  /\ caches'[c].cache = old
                  /\ stores'[old] = stores[old]
                  /\ g'[GLOBAL_CACHE_NAME] = c
       /\ \A c1, c2 \in 1..Len(caches) :
            (/\ caches[c1].cache = caches[c2].cache
             /\ last'.op \notin {"Cache", "set_globals", "Cache.reset"}) =>
              caches'[c1].cache = caches'[c2].cache
      ]_vars

\* A second Cache was just made on the namespace without reset, and a value
\* stored through the first one is there through the second.
C7_Witness ==
    /\ last.op = "Cache"
    /\ last.c = 2
    /\ declared[1] # {}
    /\ \E h \in CellsIn(caches[2].cache) : ~IsNone(Stored(stores, h))

\* C8: a bind with reset gives the bound Cache a new, empty storage dict no
\* other Cache or handle refers to, so that no lookup through it is a hit; the
\* slot holds the bound Cache afterwards; every other Cache, its storage dict
\* and what the handles in use see are as before.
C8_ResetBindsFresh ==
    [][\A c \in 1..MaxCaches :
          Binds(c, TRUE) =>
            LET new == caches'[c].cache
            IN  /\ stores'[new] = EmptyDict
                /\ \A h \in CellsIn(new) : IsNone(Stored(stores', h))
                /\ g'[GLOBAL_CACHE_NAME] = c
                /\ \A c2 \in (1..Len(caches)) \ {c} :
                      /\ caches'[c2] = caches[c2]
                      /\ caches[c2].cache # new
                      /\ stores'[caches[c2].cache] = stores[caches[c2].cache]
                /\ \A hv \in Held :
                      /\ cvar[hv][1].store # new
                      /\ Stored(stores', cvar[hv][1]) = Stored(stores, cvar[hv][1])
      ]_vars

\* A second Cache was just made with reset on a namespace whose Cache holds a
\* value: the two have different storage dicts and the value is still in the
\* first one's.
C8_Witness ==
    /\ last.op = "Cache"
    /\ last.c = 2
    /\ g[GLOBAL_CACHE_NAME] = 2
    /\ caches[2].cache # caches[1].cache
    /\ stores[caches[2].cache] = EmptyDict
    /\ \E h \in CellsIn(caches[1].cache) : ~IsNone(Stored(stores, h))

\* C9: Cache.reset() leaves the Cache with an empty storage dict of its own:
\* no lookup through the Cache finds a value stored before; the first call of
\* a decorated function of the Cache after the reset runs the function; a
\* handle made through the Cache after the reset is not cached.
C9_ResetEmpties ==
    [][/\ \A c \in 1..MaxCaches :
            Cache_reset(c) =>
              LET new == caches'[c].cache
              IN  /\ stores'[new] = EmptyDict
                  /\ \A h \in CellsIn(new) : IsNone(Stored(stores', h))
                  /\ \A c2 \in (1..Len(caches)) \ {c} : caches'[c2].cache # new
                  /\ \A hv \in Held : cvar'[hv][1].store # new
       /\ \A dv \in DVars, a \in Args :
            (/\ Call(dv, a)
             /\ last.op = "Cache.reset"
             /\ last.c = funcs[dv][1].cache) => last'.invoked
       /\ \A c \in 1..MaxCaches, hv \in HVars, n \in VarNames, a \in Args,
             k \in KwargsIn, s \in SizeLimits :
            (/\ Cache_var(c, hv, n, a, k, s)
             /\ last.op = "Cache.reset"
             /\ last.c = c
             /\ last'.err = "") =>
               /\ IsNone(Stored(stores', cvar'[hv][1]))
               /\ ~Settings.DISABLE => not_cached(stores', cvar'[hv][1])
      ]_vars

\* A Cache that held a value was just reset: a handle made before still sees
\* the value in the old storage dict, a lookup through the Cache does not.
C9_Witness ==
    /\ last.op = "Cache.reset"
    /\ \E hv \in Held :
          /\ ~IsNone(Stored(stores, cvar[hv][1]))
          /\ cvar[hv][1].store # caches[last.c].cache
          /\ IsNone(Stored(stores, [cvar[hv][1] EXCEPT !.store = caches[last.c].cache]))

\* C10: a map changes its key order only by taking a new key at the newest
\* end, dropping the key at the oldest end when it is full; a store to a key
\* it holds replaces the value and keeps the order, get() and a hit of a
\* decorated call leave the storage as it is: the key evicted next is always
\* the one that was inserted first among those held.
C10_FifoNotRefreshed ==
    [][/\ \A s \in 1..Len(stores) : \A m \in DOMAIN stores[s] :
          \A n \in DOMAIN stores[s][m] :
            LET old == stores[s][m][n]
                new == stores'[s][m][n]
                ko == KeySeq(old.items)
                kn == KeySeq(new.items)
            IN  \/ kn = ko
                \/ \E k \in Keys(new.items) \ Keys(old.items) :
                      kn = Append(IF Len(ko) < old.size_limit[1] THEN ko
                                  ELSE Tail(ko), k)
       /\ \A hv \in HVars, v \in Values :
            (CacheVar_set(hv, v) /\ ~IsNone(Stored(stores, cvar[hv][1]))) =>
              /\ KeySeq(fcache(stores', cvar[hv][1]).items)
                    = KeySeq(fcache(stores, cvar[hv][1]).items)
              /\ Stored(stores', cvar[hv][1]) = Some(v)
       /\ \A hv \in HVars : CacheVar_get(hv) => stores' = stores
       /\ \A dv \in DVars, a \in Args3 :
            (Call(dv, a) /\ ~IsNone(Stored(stores, CallVar(dv, a)))) =>
              ~last'.invoked /\ stores' = stores
      ]_vars

\* A decorated call has just hit the oldest key of a full map of capacity 2,
\* and the key is still the oldest.
C10_Witness ==
    /\ last.op = "call"
    /\ ~last.invoked
    /\ last.result = Some(2)
    /\ KeySeq(fcache(stores, CallVar(last.v, <<1>>)).items)
          = <<MakeKey(<<1>>, Some(EmptyDict)), MakeKey(<<2>>, Some(EmptyDict))>>
    /\ fcache(stores, CallVar(last.v, <<1>>)).size_limit = Some(2)

\* C11: a map made with a size limit of 0 or below 0 is unlimited: a set
\* stores the value (a get that follows returns it) and removes no key the
\* map holds, and no operation raises because of the limit.
C11_NonPositiveIsUnlimited ==
    [][/\ \A hv \in HVars, v \in Values :
            CacheVar_set(hv, v) =>
              /\ Stored(stores', cvar[hv][1]) = Some(v)
              /\ Keys(fcache(stores, cvar[hv][1]).items)
                    \subseteq Keys(fcache(stores', cvar[hv][1]).items)
       /\ \A hv \in HVars :
            (CacheVar_get(hv) /\ last.op = "set" /\ last.v = hv) =>
              last'.result = last.result /\ last'.err = ""
       /\ last'.err # "KeyError"
      ]_vars

\* The maps of storage heap st, as <<store, module, name>>.
Maps(st) ==
    {<<i, m, n>> : i \in 1..Len(st), m \in VarNames \cup {getsourcefile(f) : f \in Fns},
                   n \in VarNames \cup {get_name(f) : f \in Fns}}

HasMap(st, x) ==
    /\ x[1] \in 1..Len(st)
    /\ Has(st[x[1]], x[2])
    /\ Has(st[x[1]][x[2]], x[3])

MapOf(st, x) == st[x[1]][x[2]][x[3]]

\* C12: a Cache bound without a size limit takes the default
\* Settings.SIZE_LIMIT, D; a map made by a variable or a decorated function of
\* that Cache that gives no size limit has the limit D; a map of limit D never
\* holds more than D entries, and a new key makes its length min(length + 1, D)
\* (length + 1 when D is None), so that n distinct keys leave min(n, D) entries.
C12_DefaultBounds ==
    [][/\ \A r \in BOOLEAN :
            Cache_set_globals(1, None, r, None) =>
              caches'[1].size_limit = Settings.SIZE_LIMIT
       /\ \A x \in Maps(stores') :
            (HasMap(stores', x) /\ ~HasMap(stores, x)) =>
              /\ last'.op = "var" =>
                    MapOf(stores', x).size_limit = caches[1].size_limit
              /\ last'.op = "call" =>
                    MapOf(stores', x).size_limit = funcs[last'.v][1].size_limit
       /\ (last'.op = "decorate" /\ last'.err = "") =>
              funcs'[last'.v][1].size_limit = caches[1].size_limit
       /\ \A x \in Maps(stores) :
            (HasMap(stores, x) /\ HasMap(stores', x)) =>
              LET old == MapOf(stores, x)
                  new == MapOf(stores', x)
                  D == old.size_limit
              IN  /\ new.size_limit = D
                  /\ ~IsNone(D) => Len(new.items) <= D[1]
                  /\ Keys(new.items) # Keys(old.items) =>
                        Len(new.items) = IF IsNone(D) THEN Len(old.items) + 1
                                         ELSE Min(Len(old.items) + 1, D[1])
      ]_vars

\* Under a default of 2 a decorated function that gives no size limit was
\* called with three arguments in turn: its map holds the last two.
C12_Witness ==
    /\ last.op = "call"
    /\ last.invoked
    /\ Settings.SIZE_LIMIT = Some(2)
    /\ caches[1].size_limit = Some(2)
    /\ fcache(stores, CallVar(last.v, <<3>>)).size_limit = Some(2)
    /\ KeySeq(fcache(stores, CallVar(last.v, <<3>>)).items)
          = <<MakeKey(<<2>>, Some(EmptyDict)), MakeKey(<<3>>, Some(EmptyDict))>>

\* C13: decorated functions of one name defined in different modules or
\* classes never use the same map, and a call never returns a value that
\* another function computed.
C13_OwnersDoNotCollide ==
    [][/\ \A d1, d2 \in DVars2 :
            (/\ ~IsNone(funcs'[d1])
             /\ ~IsNone(funcs'[d2])
             /\ Owner(funcs'[d1][1].fn) # Owner(funcs'[d2][1].fn)) =>
               <<funcs'[d1][1].module, funcs'[d1][1].name>>
                  # <<funcs'[d2][1].module, funcs'[d2][1].name>>
       /\ \A dv \in DVars2, a \in Args :
            Call(dv, a) => last'.result = Some(Compute(funcs[dv][1].fn, a))
      ]_vars

\* Two keyword dicts are equal: the same (name, value) items, in any order.
DictEq(k1, k2) ==
    /\ Len(k1) = Len(k2)
    /\ \A i \in DOMAIN k1 : \E j \in DOMAIN k2 : k1[i] = k2[j]

\* C14: the keys of two calls are equal exactly when the positional values
\* are the same in the same order and the keyword items are the same in any
\* order; a call is a hit exactly when the map holds the key of a call with
\* such arguments, and a miss stores the key.
C14_KeyCanonical ==
    [][/\ \A a1, a2 \in ArgsK, k1, k2 \in KwargsK :
            (MakeKey(a1, Some(k1)) = MakeKey(a2, Some(k2)))
               = (a1 = a2 /\ DictEq(k1, k2))
       /\ \A dv \in DVars, a \in ArgsK, k \in KwargsK :
            CallKw(dv, a, k) =>
              LET held == Keys(fcache(stores', CacheVar_init(1, funcs[dv][1].module,
                                                 funcs[dv][1].name, a, Some(k))).items)
                  before == IF HasMap(stores, <<1, funcs[dv][1].module, funcs[dv][1].name>>)
                            THEN Keys(MapOf(stores, <<1, funcs[dv][1].module,
                                                      funcs[dv][1].name>>).items)
                            ELSE {}
              IN  /\ ~last'.invoked =
                        (\E k0 \in KwargsK :
                            DictEq(k0, k) /\ MakeKey(a, Some(k0)) \in before)
                  /\ \A k0 \in KwargsK :
                        DictEq(k0, k) => MakeKey(a, Some(k0)) \in held
      ]_vars

\* A call with the keyword items given as c, b was a hit, in a map that holds
\* two keys: the one stored by a call with the same items and the one of a
\* call with another value of b.
C14_Witness ==
    /\ last.op = "call"
    /\ ~last.invoked
    /\ last.input = <<<<1, 2>>, <<<<"c", 2>>, <<"b", 1>>>>>>
    /\ Keys(fcache(stores, CallVar(last.v, <<1, 2>>)).items)
          = {MakeKey(<<1, 2>>, Some(<<<<"b", 1>>, <<"c", 2>>>>)),
             MakeKey(<<1, 2>>, Some(<<<<"b", 2>>, <<"c", 2>>>>))}

\* C15: every call of a function decorated with reset=True, in either way,
\* runs the function, also when its arguments have an entry, and leaves the
\* result of that run as the entry.
C15_ResetAlwaysRecomputes ==
    [][\A dv \in DVars2, a \in Args3 :
          Call(dv, a) =>
            /\ last'.invoked
            /\ last'.result = Some(Compute(funcs[dv][1].fn, a))
            /\ Stored(stores', CallVar(dv, a)) = last'.result
      ]_vars

\* The key of a call func(*args) without keyword arguments.
KeyOf(args) == MakeKey(args, Some(EmptyDict))

\* C16: a call of a function decorated with save=True runs the function
\* exactly when neither the in-memory map nor the file holds the key; a value
\* it computes is written to the file; a value found only in the file is
\* returned and put into the map; a reset or a bind of a Cache leaves the
\* files as they are. So a value computed once is returned without a run of
\* the function after the in-memory storage was discarded.
C16_SaveRoundTrip ==
    [][/\ \A dv \in DVars2, a \in Args :
            CallSaved(dv, a, EmptyDict) =>
              LET f == funcs[dv][1]
                  mem == Stored(stores, CallVar(dv, a))
                  dur == Durable_read(shelve, f.module, f.name, KeyOf(a))
              IN  /\ last'.invoked = (IsNone(mem) /\ IsNone(dur))
                  /\ last'.invoked =>
                        /\ last'.result = Some(Compute(f.fn, a))
                        /\ Durable_read(shelve', f.module, f.name, KeyOf(a))
                              = last'.result
                  /\ (IsNone(mem) /\ ~IsNone(dur)) => last'.result = dur
                  /\ Stored(stores', CallVar(dv, a)) = last'.result
       /\ last'.op \in {"Cache.reset", "Cache"} => shelve' = shelve
      ]_vars

\* Five operations: a second Cache on the namespace (which keeps the first
\* storage dict alive), a decoration, a call that computed, a reset, and the
\* same call again, which did not run the function: both storage dicts hold
\* the key, the old one from the first call and the new one from the file.
C16_Witness ==
    /\ last.op = "call"
    /\ ~last.invoked
    /\ last.result = Some(2)
    /\ last.left = MaxOpsSave - 5
    /\ Len(stores) = 2
    /\ \A i \in 1..2 :
          ~IsNone(Stored(stores, [CallVar(last.v, <<1>>) EXCEPT !.store = i]))

\* C17: deleting the file of a function removes all its entries and nothing
\* else; from then on a call whose key is not in the in-memory map (as after a
\* reset) runs the function, whatever was persisted before.
C17_DeletedIsTotalMiss ==
    [][/\ \A dv \in DVars2 :
            DeletePersisted(dv) =>
              LET f == funcs[dv][1]
              IN  /\ \A a \in Args :
                        IsNone(Durable_read(shelve', f.module, f.name, KeyOf(a)))
                  /\ stores' = stores
                  /\ \A x \in (DOMAIN shelve) \ {<<f.module, f.name>>} :
                        Has(shelve', x) /\ shelve'[x] = shelve[x]
       /\ \A dv \in DVars2, a \in Args :
            (/\ CallSaved(dv, a, EmptyDict)
             /\ ~Has(shelve, <<funcs[dv][1].module, funcs[dv][1].name>>)
             /\ IsNone(Stored(stores, CallVar(dv, a)))) =>
               /\ last'.invoked
               /\ last'.result = Some(Compute(funcs[dv][1].fn, a))
      ]_vars

\* Six operations: a second Cache on the namespace (which keeps the first
\* storage dict alive), a decoration, a call that computed and persisted, a
\* reset and a deletion of the file, and the same call again, which ran the
\* function: the old storage dict still holds the key of the first call.
C17_Witness ==
    /\ last.op = "call"
    /\ last.invoked
    /\ last.input = <<<<1>>, EmptyDict>>
    /\ last.left = MaxOpsSave - 6
    /\ Len(stores) = 2
    /\ caches[last.c].cache = 2
    /\ ~IsNone(Stored(stores, [CallVar(last.v, <<1>>) EXCEPT !.store = 1]))

\* The state of a handle: CACHED when its map holds its key, else UNSET.
Cached(st, h) == ~IsNone(Stored(st, h))

\* The handles in use before and after the step.
Kept == {hv \in Held : cvar'[hv] = cvar[hv]}

C19_MapKeptWithFirstLimit ==
    [][/\ \A hv \in HVars, n \in VarNames, a \in Args, s \in Limits :
            (Cache_var(1, hv, n, a, None, s) /\ last'.err # "ValueError") =>
              LET x == <<caches[1].cache, n, n>>
                  given == IF IsNone(s) THEN caches[1].size_limit ELSE s
              IN  /\ last'.err = ""
                  /\ HasMap(stores', x)
                  /\ <<cvar'[hv][1].store, cvar'[hv][1].module, cvar'[hv][1].name>> = x
                  /\ IF HasMap(stores, x)
                     THEN MapOf(stores', x) = MapOf(stores, x)
                     ELSE MapOf(stores', x) = [size_limit |-> given, items |-> <<>>]
       /\ \A dv \in DVars, a \in Args :
            Call(dv, a) =>
              LET f == funcs[dv][1]
                  x == <<caches[f.cache].cache, f.module, f.name>>
              IN  /\ last'.err = ""
                  /\ HasMap(stores', x)
                  /\ MapOf(stores', x).size_limit =
                        IF HasMap(stores, x) THEN MapOf(stores, x).size_limit
                        ELSE f.size_limit
                  /\ (HasMap(stores, x) /\ ~last'.invoked) =>
                        MapOf(stores', x) = MapOf(stores, x)
      ]_vars

\* C20: while Settings.DISABLE is set, a call of a decorated function invokes
\* the function, returns its result and leaves every map as it was (the map
\* the call refers to, if it is made by the call, is empty); so nothing
\* computed while disabled is stored for later.
C20_DisabledCallLeavesStored ==
    [][\A dv \in DVars, a \in Args :
          (Call(dv, a) /\ Settings.DISABLE) =>
             /\ last'.invoked
             /\ last'.err = ""
             /\ last'.result = Some(Compute(funcs[dv][1].fn, a))
             /\ \A x \in Maps(stores') :
                   HasMap(stores', x) =>
                      MapOf(stores', x).items =
                         IF HasMap(stores, x) THEN MapOf(stores, x).items
                         ELSE <<>>
      ]_vars

\* C21: reset() of a handle removes the entry of the handle's key and nothing
\* else: the other entries of the map keep their values and their order, the
\* size limit and every other map are as before, no error is raised, and with
\* no entry stored for the key nothing changes at all.
C21_ResetRemovesOwnKeyOnly ==
    [][\A hv \in HVars :
          CacheVar_reset(hv) =>
            LET h == cvar[hv][1]
                others(e) == e.key # h.key
            IN  /\ last'.err = ""
                /\ stores' = [stores EXCEPT ![h.store][h.module][h.name].items =
                                 SelectSeq(@, others)]
                /\ ~Cached(stores, h) => stores' = stores
      ]_vars

\* a reset has left two entries, of the first and the third argument tuple, in
\* the handle's map, next to a non-empty map of another name
C21_Witness ==
    /\ last.op = "reset"
    /\ last.err = ""
    /\ LET h == cvar[last.v][1]
       IN  /\ Len(fcache(stores, h).items) = 2
           /\ h.key \notin Keys(fcache(stores, h).items)
           /\ \E n \in VarNames2 \ {h.name} :
                 /\ Has(stores[h.store], n)
                 /\ Has(stores[h.store][n], n)
                 /\ Len(stores[h.store][n][n].items) > 0

\* The entries of every map of st, by map
Entries(st) == [x \in {y \in Maps(st) : HasMap(st, y)} |-> MapOf(st, x).items]

\* C22: with a positional or keyword value that is not hashable, var() raises
\* TypeError and yields no handle, and a call of a decorated function raises
\* TypeError without invoking the function; neither stores an entry.
C22_UnhashableFailsEarly ==
    [][/\ \A hv \in HVars, n \in VarNames, a \in ArgsH, k \in KwargsH :
            (/\ Cache_var(1, hv, n, a, Some(k), None)
             /\ last'.err # "ValueError"
             /\ (~hashable(a[1]) \/ frozenset_raises(k))) =>
               /\ last'.err = "TypeError"
               /\ cvar' = cvar
               /\ \A x \in DOMAIN Entries(stores') :
                     Entries(stores')[x] =
                        IF x \in DOMAIN Entries(stores) THEN Entries(stores)[x]
                        ELSE <<>>
       /\ \A dv \in DVars, a \in ArgsH, k \in KwargsH :
            (CallKw(dv, a, k) /\ (~hashable(a[1]) \/ frozenset_raises(k))) =>
               /\ last'.err = "TypeError"
               /\ ~last'.invoked
               /\ \A x \in DOMAIN Entries(stores') :
                     Entries(stores')[x] =
                        IF x \in DOMAIN Entries(stores) THEN Entries(stores)[x]
                        ELSE <<>>
      ]_vars

\* C23: with the cache enabled, a call of a decorated function with the
\* arguments a raises nothing and returns what the wrapped function computes
\* for a, whatever calls, sets, evictions, resets and re-binds came before.
C23_CallReturnsOwnValue ==
    [][\A dv \in DVars2, a \in Args :
          (Call(dv, a) /\ ~Settings.DISABLE) =>
             /\ last'.err = ""
             /\ last'.result = Some(Compute(funcs[dv][1].fn, a))
      ]_vars

\* C24: when the wrapped function raises in a call of a decorated function,
\* plain or made with reset=True, the call raises that exception and returns
\* nothing, and every map has the entries it had (a map made by the call is
\* empty): what was stored for the arguments is still stored.
C24_RaiseLeavesEntries ==
    [][\A dv \in DVars2, a \in Args :
          (CallFn(dv, a, EmptyDict, TRUE) /\ last'.invoked) =>
             /\ last'.err = "Exception"
             /\ IsNone(last'.result)
             /\ \A x \in DOMAIN Entries(stores') :
                   Entries(stores')[x] =
                      IF x \in DOMAIN Entries(stores) THEN Entries(stores)[x]
                      ELSE <<>>
             /\ Stored(stores', CallVar(dv, a)) = Stored(stores, CallVar(dv, a))
      ]_vars

\* the function raised in a call of the force-recompute closure, and the value
\* stored earlier for the arguments is still stored
C24_Witness ==
    /\ last.op = "call"
    /\ last.err = "Exception"
    /\ last.invoked
    /\ funcs[last.v][1].kind = "reset"
    /\ Stored(stores, CallVar(last.v, last.input[1])) =
          Some(Compute(funcs[last.v][1].fn, last.input[1]))

\* The handles in use whose storage dict is no longer the dict of Cache c.
Stale(c) == {hv \in Held : cvar[hv][1].store # caches[c].cache}

\* C25: Cache.reset() leaves every handle in use as it is, with the same
\* answers of is_cached and get(); and a set through a handle made before the
\* reset changes nothing in the Cache's new dict, so that a handle declared
\* and a decorated call made after the reset do not see the value.
C25_StaleHandleKeepsState ==
    [][/\ Cache_reset(1) =>
            /\ cvar' = cvar
            /\ \A hv \in Held :
                  /\ is_cached(stores', cvar[hv][1]) = is_cached(stores, cvar[hv][1])
                  /\ CacheVar_get_result(stores', cvar[hv][1])
                        = CacheVar_get_result(stores, cvar[hv][1])
       /\ \A hv \in Stale(1), v \in Values :
            CacheVar_set(hv, v) =>
               /\ stores'[caches[1].cache] = stores[caches[1].cache]
               /\ \A n \in VarNames, a \in Args :
                     LET new == CacheVar_init(1, n, n, a, None)
                     IN  Stored(stores', new) = Stored(stores, new)
               /\ \A dv \in DVars, a \in Args :
                     ~IsNone(funcs[dv]) =>
                        Stored(stores', CallVar(dv, a)) = Stored(stores, CallVar(dv, a))
      ]_vars

\* a handle made before the reset has just been set and holds its value, and
\* a handle of the same name and arguments declared after the reset holds none
C25_Witness ==
    /\ last.op = "set"
    /\ last.v \in Stale(1)
    /\ Cached(stores, cvar[last.v][1])
    /\ \E hv \in Held \ Stale(1) :
          /\ cvar[hv][1].name = cvar[last.v][1].name
          /\ cvar[hv][1].key = cvar[last.v][1].key
          /\ ~Cached(stores, cvar[hv][1])

====
